---- MODULE Spec2Model ----
(***************************************************************************)
(* University news aggregator backend: the BERT classification service     *)
(* (app/services/model_service.py, app/services/bert_classifier.py) and    *)
(* the news routes that call it (app/routers/news.py), over the "news"     *)
(* collection of the document database.                                    *)
(*                                                                         *)
(* A text is abstracted to [spaces, words]: the number of whitespace       *)
(* characters it holds besides word separators and the number of words.    *)
(* It is the empty string iff both are 0 and whitespace-only iff words = 0 *)
(* and spaces > 0.  The tokenizer yields one token per word plus the two   *)
(* special tokens [CLS] and [SEP].  A probability vector is a sequence of  *)
(* positive integers (quantised softmax outputs), one per label.           *)
(* An HTTP answer is its status code; 0 is a request still in flight.      *)
(***************************************************************************)
EXTENDS Integers, Sequences, FiniteSets, TLC

\* ------------------------------------------------------------------ bounds
NumSlots == 2
MaxRequests == 2
MaxNews == 1
MaxScore == 2
NumLabels == 2
ShortWords == 3
LongWords == 600

\* --------------------------------------------------------------- constants
\* max_length=512 of both tokenizer calls
max_length == 512

\* settings.NEWS_CATEGORIES
NEWS_CATEGORIES ==
    << "Academics", "Events", "Sports", "Technology and Innovation",
       "Chaplaincy", "Opportunities" >>

\* the fallback category of create_news
Uncategorized == "Uncategorized"

\* The classes_ a pickled label encoder may hold: NumLabels labels, sorted as a
\* fitted LabelEncoder keeps them.  The pickle is an artifact outside the
\* repository and load_model never compares it with settings.NEWS_CATEGORIES:
\* it holds categories of the settings, or a label the settings do not list.
SortedLabels ==
    << "Academics", "Chaplaincy", "Events", "Opportunities", "Sports",
       "Technology and Innovation" >>

EncoderClasses ==
    { [i \in 1..NumLabels |-> SortedLabels[i]],
      [i \in 1..NumLabels |-> IF i = NumLabels THEN "Politics"
                                               ELSE SortedLabels[i]] }

\* The files and directories load_model tests with os.path.exists
Artifacts ==
    { "label_encoder.pkl", "bert_model", "config.json", "model.safetensors",
      "bert_tokenizer" }

\* The three loads that may themselves raise (pickle.load, from_pretrained x2)
Loads == { "label_encoder", "model", "tokenizer" }

\* Exception types a tokenizer or model call may raise; OSError stands for
\* every Exception subclass that is neither ValueError nor RuntimeError.
ExcTypes == { "ValueError", "RuntimeError", "OSError" }

\* Where an inference call may fail: nowhere, in the tokenizer, in the model
Faults ==
    { [site |-> "none", type |-> "none"] }
    \cup [site : {"tokenizer", "model"}, type : ExcTypes]

NoFault == [site |-> "none", type |-> "none"]

Texts ==
    { [spaces |-> 0, words |-> 0],
      [spaces |-> 1, words |-> 0],
      [spaces |-> 0, words |-> ShortWords],
      [spaces |-> 0, words |-> max_length - 2],
      [spaces |-> 0, words |-> LongWords] }

EmptyText == [spaces |-> 0, words |-> 0]

\* The content of a NewsCreate / NewsUpdate body
Contents == { EmptyText, [spaces |-> 0, words |-> ShortWords] }

\* The title an article is created with, and the title an update gives it
CreateTitles == { "t1" }
UpdateTitles == { "t2" }

\* A category a client may put in a NewsCreate / NewsUpdate body
ClientCategories == { "Gossip" }

\* The bearer of a request: what get_current_user finds for its token
Requesters ==
    { [valid |-> TRUE,  is_active |-> TRUE,  role |-> "admin"],
      [valid |-> TRUE,  is_active |-> TRUE,  role |-> "student"],
      [valid |-> TRUE,  is_active |-> FALSE, role |-> "admin"],
      [valid |-> TRUE,  is_active |-> FALSE, role |-> "student"],
      [valid |-> FALSE, is_active |-> FALSE, role |-> "none"] }

\* The emails of UserCreate bodies
Emails == { "a@x.edu", "b@x.edu" }

\* UserRole
UserRoles == { "student", "admin" }

\* A UserCreate body: email, role, and whether matric_number and staff_id
\* are given
UserCreates ==
    [email : Emails, role : UserRoles, matric_number : BOOLEAN,
     staff_id : BOOLEAN]

Slots == 1..NumSlots
NewsIds == 1..MaxNews

VARIABLES
    files,          \* the artifacts load_model met: which exist, which loads succeed
    app,            \* "importing" | "serving" | "crashed"
    model_service,  \* the ModelService singleton: model, tokenizer, label_encoder
    classifier,     \* the BertNewsClassifier singleton
    news,           \* the "news" collection: id -> document
    users,          \* the "users" collection, in the order of insertion
    next_id,        \* the next ObjectId insert_one hands out
    now,            \* datetime.utcnow(), a logical clock
    req,            \* the requests in flight, by slot
    started,        \* the number of requests received
    call            \* a direct call of a classifier: who, text, inference, outcome

vars ==
    << files, app, model_service, classifier, news, users, next_id, now, req,
       started, call >>


\* ------------------------------------------------- ModelService: loading

NotLoaded == [loaded |-> FALSE, classes_ |-> << >>]

\* ModelService.__init__ before load_model: every component None
Unloaded == [model |-> FALSE, tokenizer |-> FALSE, label_encoder |-> NotLoaded]

\* load_model, in the order of its statements: each missing file or failing
\* load raises and leaves what was assigned before it.
load_model(present, loadable, classes) ==
    LET enc == [loaded |-> TRUE, classes_ |-> classes]
        s1 == [Unloaded EXCEPT !.label_encoder = enc]
        s2 == [s1 EXCEPT !.model = TRUE]
        s3 == [s2 EXCEPT !.tokenizer = TRUE]
    IN  IF "label_encoder.pkl" \notin present \/ "label_encoder" \notin loadable
          THEN [raised |-> TRUE, self |-> Unloaded]
        ELSE IF \/ "bert_model" \notin present
                \/ "config.json" \notin present
                \/ "model.safetensors" \notin present
                \/ "model" \notin loadable
          THEN [raised |-> TRUE, self |-> s1]
        ELSE IF "bert_tokenizer" \notin present \/ "tokenizer" \notin loadable
          THEN [raised |-> TRUE, self |-> s2]
        ELSE [raised |-> FALSE, self |-> s3]

\* A constructor that logs the error of load_model and goes on
ModelService_init_swallow(present, loadable, classes) ==
    [load_model(present, loadable, classes) EXCEPT !.raised = FALSE]

\* ModelService.__init__: load_model, and its exception logged and re-raised
ModelService_init(present, loadable, classes) ==
    load_model(present, loadable, classes)

\* --------------------------------------------------------- tokenizer, argmax

\* The length of input_ids: [CLS] + one token per word + [SEP], cut to
\* max_length by truncation=True; padding=True pads to the longest sequence of
\* the batch (the one sequence itself), padding='max_length' to max_length.
tokenizer(text, padding) ==
    LET n == text.words + 2
        truncated == IF n > max_length THEN max_length ELSE n
    IN  IF padding = "max_length" /\ truncated < max_length
          THEN max_length
          ELSE truncated

\* torch.argmax: the index of the first maximal value
argmax(v) ==
    CHOOSE i \in 1..Len(v) :
        /\ \A j \in 1..Len(v) : v[j] <= v[i]
        /\ \A j \in 1..(i-1) : v[j] < v[i]

\* torch.max over the whole tensor: its greatest value
torch_max(v) ==
    CHOOSE x \in { v[i] : i \in 1..Len(v) } : \A j \in 1..Len(v) : v[j] <= x

\* The probability vectors a model with n labels may give
Predictions(n) == [1..n -> 1..MaxScore]

\* What an inference may do: raise in the tokenizer or in the model, or give
\* a probability vector
Inferences(n) ==
    { [fault |-> f, predictions |-> [i \in 1..n |-> 1]] : f \in Faults \ {NoFault} }
    \cup { [fault |-> NoFault, predictions |-> p] : p \in Predictions(n) }

\* ----------------------------------------------------- the outcome of a call

NotCalled ==
    [exc |-> "not_called", category |-> "", confidence |-> 0,
     tokenizer_calls |-> 0, model_calls |-> 0, input_len |-> 0]

Raise(type, tokenizer_calls, model_calls, input_len) ==
    [exc |-> type, category |-> "", confidence |-> 0,
     tokenizer_calls |-> tokenizer_calls, model_calls |-> model_calls,
     input_len |-> input_len]

Return(category, confidence, input_len) ==
    [exc |-> "none", category |-> category, confidence |-> confidence,
     tokenizer_calls |-> 1, model_calls |-> 1, input_len |-> input_len]

\* A model call that is made again after it raised
model_calls_retry(fault) == IF fault.site = "model" THEN 2 ELSE 1

\* self.model(**inputs) is reached once, raising or not
model_calls_of(fault) == 1

\* -------------------------------------------------- ModelService.predict

\* The confidence read at a fixed index
confidence_first(predictions, predicted_class) == predictions[1]

\* predictions[0][predicted_class].item()
confidence_of(predictions, predicted_class) == predictions[predicted_class]

predict(self, text, fault, predictions) ==
    IF text = EmptyText
      THEN Raise("ValueError", 0, 0, 0)
    ELSE IF ~self.model \/ ~self.tokenizer \/ ~self.label_encoder.loaded
      THEN Raise("RuntimeError", 0, 0, 0)
    ELSE IF fault.site = "tokenizer"
      THEN Raise(fault.type, 1, 0, 0)
    ELSE LET inputs == tokenizer(text, "longest") IN
      IF fault.site = "model"
        THEN Raise(fault.type, 1, model_calls_of(fault), inputs)
        ELSE LET predicted_class == argmax(predictions)
                 confidence == confidence_of(predictions, predicted_class)
                 category == self.label_encoder.classes_[predicted_class]
             IN  Return(category, confidence, inputs)

\* -------------------------------------------- BertNewsClassifier

NoClassifier == [loaded |-> FALSE, num_labels |-> 0]

\* The num_labels a checkpoint under ml/models/bert_model may have: those of
\* the settings, or one more
CheckpointLabels == { Len(NEWS_CATEGORIES), Len(NEWS_CATEGORIES) + 1 }

classify_text(self, text, fault, probabilities) ==
    IF fault.site = "tokenizer"
      THEN Raise(fault.type, 1, 0, 0)
    ELSE LET inputs == tokenizer(text, "max_length") IN
      IF fault.site = "model"
        THEN Raise(fault.type, 1, model_calls_of(fault), inputs)
        ELSE LET prediction == argmax(probabilities)
                 confidence_score == torch_max(probabilities)
             IN  IF prediction > Len(NEWS_CATEGORIES)
                   THEN Raise("IndexError", 1, 1, inputs)
                   ELSE Return(NEWS_CATEGORIES[prediction], confidence_score, inputs)


\* ------------------------------------------------------------ dependencies

\* get_current_user: 401 for a token that names no user (0: no exception)
get_current_user(u) == IF u.valid THEN 0 ELSE 401

\* get_current_active_user: 400 "Inactive user"
get_current_active_user(u) ==
    IF get_current_user(u) # 0 THEN get_current_user(u)
    ELSE IF ~u.is_active THEN 400
    ELSE 0

\* get_current_admin without the check of the role
get_current_admin_any_role(u) == get_current_active_user(u)

\* get_current_admin: 403 for a role other than admin
get_current_admin(u) ==
    IF get_current_active_user(u) # 0 THEN get_current_active_user(u)
    ELSE IF u.role # "admin" THEN 403
    ELSE 0

\* ------------------------------------------------------- requests, documents

NoBody == [fields |-> {}, title |-> "", content |-> EmptyText, category |-> ""]

\* No requester: a slot that holds no request
NoUser == [valid |-> FALSE, is_active |-> FALSE, role |-> "none"]

NoUserData ==
    [email |-> "", role |-> "student", matric_number |-> FALSE, staff_id |-> FALSE]

Idle ==
    [kind |-> "idle", pc |-> "idle", current_user |-> NoUser, status |-> 0,
     news_id |-> 0, body |-> NoBody, user_data |-> NoUserData,
     result |-> NotCalled, predict_calls |-> 0]

\* A NewsCreate body: title and content are required, category is optional
CreateBodies ==
    { [fields |-> {"title", "content"} \cup f, title |-> t, content |-> c,
       category |-> IF f = {} THEN "" ELSE g] :
        f \in SUBSET {"category"}, t \in CreateTitles, c \in Contents,
        g \in ClientCategories }

\* A NewsUpdate body as model_dump(exclude_unset=True) sees it: the fields
\* the client sent
UpdateBodies ==
    { [fields |-> f,
       title |-> IF "title" \in f THEN t ELSE "",
       content |-> IF "content" \in f THEN c ELSE EmptyText,
       category |-> IF "category" \in f THEN g ELSE ""] :
        f \in SUBSET {"title", "content", "category"}, t \in UpdateTitles,
        c \in Contents, g \in ClientCategories }

Finished(r, status) == [r EXCEPT !.pc = "done", !.status = status]

\* The except clauses of classify_text
classify_text_status(exc) ==
    CASE exc = "none" -> 200
      [] exc = "ValueError" -> 400
      [] exc = "RuntimeError" -> 503
      [] OTHER -> 500

\* The except clauses of update_news; the HTTPException of line 91 is raised
\* inside the try and is an Exception too
update_news_status(exc) ==
    CASE exc = "ValueError" -> 400
      [] exc = "RuntimeError" -> 503
      [] OTHER -> 500

\* create_news with only the empty-input error caught around predict
create_classification_narrow(result) ==
    IF result.exc = "none"
      THEN [raised |-> FALSE, category |-> result.category,
            confidence_score |-> result.confidence]
    ELSE IF result.exc = "ValueError"
      THEN [raised |-> FALSE, category |-> Uncategorized, confidence_score |-> 0]
    ELSE [raised |-> TRUE, category |-> "", confidence_score |-> 0]

\* create_news, lines 45-54: the classification, or the fallback on any
\* exception of predict
create_classification(result) ==
    IF result.exc = "none"
      THEN [raised |-> FALSE, category |-> result.category,
            confidence_score |-> result.confidence]
      ELSE [raised |-> FALSE, category |-> Uncategorized, confidence_score |-> 0]

\* update_news with update_one reached whatever predict did
update_reaches_write_always(result) == TRUE

\* update_news, lines 94-103: an exception of predict leaves the try block
\* before update_one
update_reaches_write(result) == result.exc \in {"none", "not_called"}

\* update_news with a category of the body kept over the classifier's
update_data_keeps_category(body, result) ==
    [fields |-> IF "content" \in body.fields
                  THEN body.fields \cup {"category", "confidence_score"}
                  ELSE body.fields,
     title |-> body.title,
     content |-> body.content,
     category |-> IF "category" \in body.fields THEN body.category
                  ELSE result.category,
     confidence_score |-> IF "content" \in body.fields THEN result.confidence
                          ELSE 0]

\* update_news, lines 93-101: update_data after the reclassification
update_data(body, result) ==
    [fields |-> IF "content" \in body.fields
                  THEN body.fields \cup {"category", "confidence_score"}
                  ELSE body.fields,
     title |-> body.title,
     content |-> body.content,
     category |-> IF "content" \in body.fields THEN result.category
                  ELSE body.category,
     confidence_score |-> IF "content" \in body.fields THEN result.confidence
                          ELSE 0]

\* find_one({"email": email}) on the users collection: is there a document
find_one_email(collection, email) ==
    \E i \in DOMAIN collection : collection[i].email = email

\* create_user, lines 21-32: the fields a role requires (0: no exception)
create_user_validation(user) ==
    IF user.role = "student" /\ ~user.matric_number THEN 400
    ELSE IF user.role = "admin" /\ ~user.staff_id THEN 400
    ELSE 0

\* The document register and create_user insert
user_dict(user) == [email |-> user.email, role |-> user.role]

\* update_one's $set on a document
set_fields(doc, data, at) ==
    [title |-> IF "title" \in data.fields THEN data.title ELSE doc.title,
     content |-> IF "content" \in data.fields THEN data.content ELSE doc.content,
     category |-> IF "category" \in data.fields THEN data.category ELSE doc.category,
     confidence_score |-> IF "confidence_score" \in data.fields
                            THEN data.confidence_score ELSE doc.confidence_score,
     updated_at |-> at]

\* -------------------------------------------------------------------- Init

NoCall ==
    [who |-> "none", text |-> EmptyText, inf |-> [fault |-> NoFault, predictions |-> << >>],
     outcome |-> NotCalled]

Init ==
    /\ files = [present |-> {}, loadable |-> {}]
    /\ app = "importing"
    /\ model_service = Unloaded
    /\ classifier = NoClassifier
    /\ news = << >>
    /\ users = << >>
    /\ next_id = 1
    /\ now = 1
    /\ req = [s \in Slots |-> Idle]
    /\ started = 0
    /\ call = NoCall

\* A handler returns its answer without awaiting anything more, and a direct
\* call of a classifier awaits nothing: the answer of a finished request
\* leaves, and a direct call returns, before another handler runs.
NoneDone == call = NoCall /\ \A t \in Slots : req[t].pc # "done"

\* ----------------------------------------------------------------- startup

\* The import of app.services.model_service: model_service = ModelService().
\* A constructor that raises fails the import of the news router with it.
Startup ==
    /\ app = "importing"
    /\ NoneDone
    /\ \E present \in SUBSET Artifacts, loadable \in SUBSET Loads,
          classes \in EncoderClasses :
          LET r == ModelService_init(present, loadable, classes) IN
            /\ files' = [present |-> present, loadable |-> loadable]
            /\ app' = IF r.raised THEN "crashed" ELSE "serving"
            /\ model_service' = IF r.raised THEN Unloaded ELSE r.self
    /\ UNCHANGED << users, classifier, news, next_id, now, req, started, call >>

\* A request is handled in the first free slot
Receives(s) ==
    /\ app = "serving"
    /\ NoneDone
    /\ started < MaxRequests
    /\ req[s] = Idle
    /\ \A t \in 1..(s-1) : req[t] # Idle
    /\ started' = started + 1

ModelOutputs == Inferences(Len(model_service.label_encoder.classes_))



\* ------------------------------------------------- POST /news/classify

ClassifyText(s) ==
    /\ Receives(s)
    /\ \/ \E u \in Requesters :
            /\ get_current_active_user(u) # 0
            /\ req' = [req EXCEPT ![s] =
                         Finished([Idle EXCEPT !.kind = "classify", !.current_user = u],
                                  get_current_active_user(u))]
       \/ \E u \in Requesters, text \in Texts, inf \in ModelOutputs :
            LET result == predict(model_service, text, inf.fault, inf.predictions)
                r == [Idle EXCEPT !.kind = "classify", !.current_user = u,
                                  !.body = [NoBody EXCEPT !.content = text],
                                  !.result = result,
                                  !.predict_calls = 1]
            IN  /\ get_current_active_user(u) = 0
                /\ req' = [req EXCEPT ![s] =
                             Finished(r, classify_text_status(result.exc))]
    /\ UNCHANGED << users, files, app, model_service, classifier, news, next_id, now, call >>

\* ------------------------------------------------------------ POST /news

\* create_news up to insert_one: the dependency, predict, the fallback, the
\* insert
CreateNews(s) ==
    /\ Receives(s)
    /\ next_id <= MaxNews
    /\ \/ \E u \in Requesters :
            /\ get_current_admin(u) # 0
            /\ req' = [req EXCEPT ![s] =
                         Finished([Idle EXCEPT !.kind = "create", !.current_user = u],
                                  get_current_admin(u))]
            /\ UNCHANGED << news, next_id, now >>
       \/ \E u \in Requesters, body \in CreateBodies, inf \in ModelOutputs :
            LET result == predict(model_service, body.content, inf.fault,
                                  inf.predictions)
                c == create_classification(result)
                r == [Idle EXCEPT !.kind = "create", !.current_user = u, !.result = result,
                                  !.predict_calls = 1]
                doc == [title |-> body.title, content |-> body.content,
                        category |-> c.category,
                        confidence_score |-> c.confidence_score,
                        updated_at |-> 0]
            IN  /\ get_current_admin(u) = 0
                /\ IF c.raised
                     THEN /\ req' = [req EXCEPT ![s] =
                                       Finished(r, IF result.exc = "ValueError"
                                                     THEN 400 ELSE 500)]
                          /\ UNCHANGED << news, next_id, now >>
                     ELSE /\ news' = (next_id :> doc) @@ news
                          /\ next_id' = next_id + 1
                          /\ now' = now + 1
                          /\ req' = [req EXCEPT ![s] =
                                       [r EXCEPT !.pc = "inserted",
                                                 !.news_id = next_id]]
    /\ UNCHANGED << users, files, app, model_service, classifier, call >>

\* create_news from find_one on: a document that is gone gives None, whose
\* pop raises, which the outer except turns into 500
CreateNewsReturn(s) ==
    /\ req[s].pc = "inserted"
    /\ NoneDone
    /\ req' = [req EXCEPT ![s] =
                 Finished(@, IF req[s].news_id \in DOMAIN news THEN 200 ELSE 500)]
    /\ UNCHANGED << users, files, app, model_service, classifier, news, next_id, now,
                    started, call >>

\* ------------------------------------------------------- PUT /news/{id}

\* update_news up to the first find_one
UpdateNews(s) ==
    /\ Receives(s)
    /\ \/ \E u \in Requesters :
            /\ get_current_admin(u) # 0
            /\ req' = [req EXCEPT ![s] =
                         Finished([Idle EXCEPT !.kind = "update", !.current_user = u],
                                  get_current_admin(u))]
       \/ \E u \in Requesters, news_id \in NewsIds, body \in UpdateBodies :
            LET r == [Idle EXCEPT !.kind = "update", !.current_user = u, !.news_id = news_id,
                                  !.body = body]
            IN  /\ get_current_admin(u) = 0
                /\ req' = [req EXCEPT ![s] =
                             IF news_id \notin DOMAIN news
                               THEN Finished(r, update_news_status("HTTPException"))
                               ELSE [r EXCEPT !.pc = "found"]]
    /\ UNCHANGED << users, files, app, model_service, classifier, news, next_id, now, call >>

\* update_news from model_dump to update_one
UpdateNewsWrite(s) ==
    /\ req[s].pc = "found"
    /\ NoneDone
    /\ \E inf \in ModelOutputs :
          LET r == req[s]
              reclassify == "content" \in r.body.fields
              result == IF reclassify
                          THEN predict(model_service, r.body.content, inf.fault,
                                       inf.predictions)
                          ELSE NotCalled
              called == [r EXCEPT !.result = result,
                                  !.predict_calls = IF reclassify THEN 1 ELSE 0]
              data == update_data(r.body, result)
          IN  /\ req' = [req EXCEPT ![s] =
                    IF result.exc \in {"none", "not_called"}
                      THEN [called EXCEPT !.pc = "written"]
                      ELSE Finished(called, update_news_status(result.exc))]
              /\ IF update_reaches_write(result)
                   THEN /\ news' = IF r.news_id \in DOMAIN news
                                     THEN [news EXCEPT ![r.news_id] =
                                             set_fields(@, data, now)]
                                     ELSE news
                        /\ now' = now + 1
                   ELSE UNCHANGED << news, now >>
    /\ UNCHANGED << users, files, app, model_service, classifier, next_id, started, call >>

\* update_news from the second find_one on: News(**None) raises; a document
\* found validates (PyObjectId turns its _id into a string)
UpdateNewsReturn(s) ==
    /\ req[s].pc = "written"
    /\ NoneDone
    /\ req' = [req EXCEPT ![s] =
                 Finished(@, IF req[s].news_id \in DOMAIN news
                               THEN 200 ELSE update_news_status("TypeError"))]
    /\ UNCHANGED << users, files, app, model_service, classifier, news, next_id, now,
                    started, call >>

\* ---------------------------------------------------- DELETE /news/{id}

DeleteNews(s) ==
    /\ Receives(s)
    /\ \E u \in Requesters, news_id \in NewsIds :
          LET r == [Idle EXCEPT !.kind = "delete", !.current_user = u, !.news_id = news_id]
          IN  IF get_current_admin(u) # 0
                THEN /\ req' = [req EXCEPT ![s] =
                                  Finished([Idle EXCEPT !.kind = "delete", !.current_user = u],
                                           get_current_admin(u))]
                     /\ news' = news
              ELSE IF news_id \in DOMAIN news
                THEN /\ req' = [req EXCEPT ![s] = Finished(r, 200)]
                     /\ news' = [i \in DOMAIN news \ {news_id} |-> news[i]]
              ELSE /\ req' = [req EXCEPT ![s] = Finished(r, 404)]
                   /\ news' = news
    /\ UNCHANGED << users, files, app, model_service, classifier, next_id, now, call >>

\* ------------------------------------------------- POST /auth/register

\* register up to its find_one; the route has no dependency. register reads
\* email, password, full_name and role of the body only.
Register(s) ==
    /\ Receives(s)
    /\ \E user_data \in UserCreates :
          LET r == [Idle EXCEPT !.kind = "register", !.user_data = user_data]
          IN  /\ ~user_data.matric_number /\ ~user_data.staff_id
              /\ req' = [req EXCEPT ![s] =
                           IF find_one_email(users, user_data.email)
                             THEN Finished(r, 400)
                             ELSE [r EXCEPT !.pc = "checked"]]
    /\ UNCHANGED << users, files, app, model_service, classifier, news, next_id,
                    now, call >>

\* register from insert_one on: nothing is awaited after it
RegisterInsert(s) ==
    /\ req[s].kind = "register"
    /\ req[s].pc = "checked"
    /\ NoneDone
    /\ users' = Append(users, user_dict(req[s].user_data))
    /\ req' = [req EXCEPT ![s] = Finished(@, 200)]
    /\ UNCHANGED << files, app, model_service, classifier, news, next_id, now,
                    started, call >>

\* ------------------------------------------------------------ POST /users

\* create_user up to its find_one, and the validation that follows it
CreateUser(s) ==
    /\ Receives(s)
    /\ \E user \in UserCreates :
          LET r == [Idle EXCEPT !.kind = "create_user", !.user_data = user]
          IN  req' = [req EXCEPT ![s] =
                        IF find_one_email(users, user.email)
                          THEN Finished(r, 400)
                        ELSE IF create_user_validation(user) # 0
                          THEN Finished(r, create_user_validation(user))
                        ELSE [r EXCEPT !.pc = "checked"]]
    /\ UNCHANGED << users, files, app, model_service, classifier, news, next_id,
                    now, call >>

\* create_user's insert_one
CreateUserInsert(s) ==
    /\ req[s].kind = "create_user"
    /\ req[s].pc = "checked"
    /\ NoneDone
    /\ users' = Append(users, user_dict(req[s].user_data))
    /\ req' = [req EXCEPT ![s].pc = "inserted"]
    /\ UNCHANGED << files, app, model_service, classifier, news, next_id, now,
                    started, call >>

\* create_user from its second find_one on: User(**created_user) is given
\* the ObjectId of _id for id: str, which the validation of the pydantic in
\* use accepts (200) or refuses (500)
CreateUserReturn(s) ==
    /\ req[s].kind = "create_user"
    /\ req[s].pc = "inserted"
    /\ NoneDone
    /\ \E status \in {200, 500} : req' = [req EXCEPT ![s] = Finished(@, status)]
    /\ UNCHANGED << users, files, app, model_service, classifier, news, next_id,
                    now, started, call >>

\* The answer leaves; the slot is free again
Respond(s) ==
    /\ req[s].pc = "done"
    /\ req' = [req EXCEPT ![s] = Idle]
    /\ UNCHANGED << users, files, app, model_service, classifier, news, next_id, now,
                    started, call >>

\* ------------------------------------------- direct calls of the classifiers

\* The import of app.services.bert_classifier: classifier = BertNewsClassifier().
\* Either from_pretrained may raise, and then the module has no classifier.
\* No module of the application imports it and it shares nothing with the
\* application: it is exercised on its own, before the application starts.
BertNewsClassifier_init ==
    /\ ~classifier.loaded
    /\ app = "importing"
    /\ NoneDone
    /\ \E loads \in BOOLEAN, n \in CheckpointLabels :
          classifier' = IF loads THEN [loaded |-> TRUE, num_labels |-> n]
                                 ELSE NoClassifier
    /\ UNCHANGED << users, files, app, model_service, news, next_id, now, req,
                    started, call >>

\* await classifier.classify_text(text)
ClassifyTextCall ==
    /\ classifier.loaded
    /\ app = "importing"
    /\ NoneDone
    /\ \E text \in Texts, inf \in Inferences(classifier.num_labels) :
          call' = [who |-> "classify_text", text |-> text, inf |-> inf,
                   outcome |-> classify_text(classifier, text, inf.fault,
                                             inf.predictions)]
    /\ UNCHANGED << users, files, app, model_service, classifier, news, next_id, now,
                    req, started >>

\* await model_service.predict(text), as the three routes call it
PredictCall ==
    /\ app = "serving"
    /\ NoneDone
    /\ \E text \in Texts, inf \in ModelOutputs :
          call' = [who |-> "predict", text |-> text, inf |-> inf,
                   outcome |-> predict(model_service, text, inf.fault,
                                       inf.predictions)]
    /\ UNCHANGED << users, files, app, model_service, classifier, news, next_id, now,
                    req, started >>

CallReturns ==
    /\ call # NoCall
    /\ call' = NoCall
    /\ UNCHANGED << users, files, app, model_service, classifier, news, next_id, now,
                    req, started >>

\* The news routes that write the collection, any NumSlots of them in flight
Next ==
    \/ Startup
    \/ \E s \in Slots : CreateNews(s)
    \/ \E s \in Slots : CreateNewsReturn(s)
    \/ \E s \in Slots : UpdateNews(s)
    \/ \E s \in Slots : UpdateNewsWrite(s)
    \/ \E s \in Slots : UpdateNewsReturn(s)
    \/ \E s \in Slots : DeleteNews(s)
    \/ \E s \in Slots : Respond(s)

Spec == Init /\ [][Next]_vars

\* The classifiers alone: the two singletons, their direct calls, and the
\* classification route
ClassifierNext ==
    \/ Startup
    \/ BertNewsClassifier_init
    \/ ClassifyTextCall
    \/ PredictCall
    \/ CallReturns
    \/ \E s \in Slots : ClassifyText(s)
    \/ \E s \in Slots : Respond(s)

ClassifierSpec == Init /\ [][ClassifierNext]_vars

\* The two routes that insert into the users collection, any NumSlots of
\* them in flight
UsersNext ==
    \/ Startup
    \/ \E s \in Slots : Register(s)
    \/ \E s \in Slots : RegisterInsert(s)
    \/ \E s \in Slots : CreateUser(s)
    \/ \E s \in Slots : CreateUserInsert(s)
    \/ \E s \in Slots : CreateUserReturn(s)
    \/ \E s \in Slots : Respond(s)

UsersSpec == Init /\ [][UsersNext]_vars


\* ============================================================== properties

\* text.strip() is empty: the empty string or whitespace only
IsBlank(text) == text.words = 0

\* The request called predict and predict raised
ClassificationFailed(r) == r.predict_calls = 1 /\ r.result.exc # "none"

ComponentsLoaded ==
    /\ model_service.model
    /\ model_service.tokenizer
    /\ model_service.label_encoder.loaded

ConfiguredCategories == { NEWS_CATEGORIES[i] : i \in 1..Len(NEWS_CATEGORIES) }

\* C1: every empty or whitespace-only text makes predict raise ValueError
\* (400 from POST /news/classify) with no tokenizer call and no model call.
C1_BlankInputRejected ==
    /\ \A s \in Slots :
         (/\ req[s].kind = "classify"
          /\ req[s].predict_calls = 1
          /\ IsBlank(req[s].body.content))
         => /\ req[s].status = 400
            /\ req[s].result.exc = "ValueError"
            /\ req[s].result.tokenizer_calls = 0
            /\ req[s].result.model_calls = 0
    /\ (call.who = "predict" /\ IsBlank(call.text))
         => /\ call.outcome.exc = "ValueError"
            /\ call.outcome.tokenizer_calls = 0
            /\ call.outcome.model_calls = 0

\* C2: when predict raises in create_news, whatever it raises, the step
\* still inserts the article, with category "Uncategorized" and confidence
\* 0.0, and the request answers 200 when it reads the article back.
C2_CreateFallsBack ==
    [][\A s \in Slots :
         /\ (/\ req[s] = Idle
             /\ req'[s].kind = "create"
             /\ ClassificationFailed(req'[s]))
            => /\ req'[s].pc = "inserted"
               /\ req'[s].news_id \notin DOMAIN news
               /\ req'[s].news_id \in DOMAIN news'
               /\ news'[req'[s].news_id].category = Uncategorized
               /\ news'[req'[s].news_id].confidence_score = 0
         /\ (/\ req[s].kind = "create"
             /\ req[s].pc = "inserted"
             /\ ClassificationFailed(req[s])
             /\ req'[s].pc = "done"
             /\ req[s].news_id \in DOMAIN news)
            => req'[s].status = 200
      ]_vars

\* A create request whose classification failed has answered 200 and its
\* article is stored as Uncategorized with confidence 0
C2_Witness ==
    \E s \in Slots :
        /\ req[s].kind = "create"
        /\ req[s].pc = "done"
        /\ req[s].status = 200
        /\ ClassificationFailed(req[s])
        /\ req[s].news_id \in DOMAIN news
        /\ news[req[s].news_id].category = Uncategorized
        /\ news[req[s].news_id].confidence_score = 0

\* C3: an update_news whose body holds content and whose classification
\* fails, for any reason, answers 503.
C3_UpdateFailureIs503 ==
    \A s \in Slots :
        (/\ req[s].kind = "update"
         /\ req[s].pc = "done"
         /\ ClassificationFailed(req[s]))
        => req[s].status = 503

\* C4: no step of an update_news whose classification fails changes the
\* news collection: neither its first find_one nor the step in which
\* predict raises.
C4_FailedUpdateWritesNothing ==
    [][\A s \in Slots :
         (/\ req'[s].kind = "update"
          /\ req'[s] # req[s]
          /\ \/ req'[s].pc = "found"
             \/ req'[s].pc = "done" /\ ClassificationFailed(req'[s]))
         => news' = news
      ]_vars

\* An update of a stored article has ended on a failed classification
C4_Witness ==
    \E s \in Slots :
        /\ req[s].kind = "update"
        /\ req[s].pc = "done"
        /\ ClassificationFailed(req[s])
        /\ req[s].body.fields = {"title", "content", "category"}
        /\ req[s].news_id \in DOMAIN news

\* C5: every category predict or classify_text returns is one of
\* settings.NEWS_CATEGORIES or "Uncategorized".
C5_CategoryIsConfigured ==
    /\ \A s \in Slots :
         req[s].result.exc = "none"
         => req[s].result.category \in ConfiguredCategories \cup {Uncategorized}
    /\ call.outcome.exc = "none"
         => call.outcome.category \in ConfiguredCategories \cup {Uncategorized}

\* The labels a classifier resolves an index with
LabelsOf(who) ==
    IF who = "predict" THEN model_service.label_encoder.classes_
                       ELSE NEWS_CATEGORIES

\* C6: for a non-empty text and a probability vector the model gives, the
\* category returned is the label at an index of the greatest probability and
\* the confidence returned is that greatest probability; predict returns for
\* every such input.
C6_CategoryOfMaximum ==
    (/\ call.who \in {"predict", "classify_text"}
     /\ call.inf.fault = NoFault
     /\ call.text # EmptyText)
    => /\ call.who = "predict" => call.outcome.exc = "none"
       /\ call.outcome.exc = "none"
            => \E i \in 1..Len(call.inf.predictions) :
                  /\ \A j \in 1..Len(call.inf.predictions) :
                        call.inf.predictions[j] <= call.inf.predictions[i]
                  /\ call.outcome.category = LabelsOf(call.who)[i]
                  /\ call.outcome.confidence = call.inf.predictions[i]

\* predict has returned for a vector whose greatest probability is not its
\* first
C6_Witness ==
    /\ call.who = "predict"
    /\ call.text # EmptyText
    /\ call.outcome.exc = "none"
    /\ call.outcome.confidence > call.inf.predictions[1]

\* C7: a fault raised by the tokenizer or the model makes classification
\* fail as RuntimeError, the kind POST /news/classify answers with 503.
C7_FaultIsServiceUnavailable ==
    \A s \in Slots :
        (/\ req[s].kind = "classify"
         /\ req[s].result.tokenizer_calls >= 1
         /\ req[s].result.exc # "none")
        => /\ req[s].result.exc = "RuntimeError"
           /\ req[s].status = 503

\* C8: with an artifact missing or a load failing the application never
\* serves, and a request that ran predict ran it with model, tokenizer and
\* label encoder loaded.
C8_PredictOnlyWhenLoaded ==
    /\ (files.present # Artifacts \/ files.loadable # Loads)
         => /\ app # "serving"
            /\ started = 0
            /\ \A s \in Slots : req[s] = Idle
    /\ app = "serving" => ComponentsLoaded
    /\ \A s \in Slots : req[s].predict_calls > 0 => ComponentsLoaded

\* The label encoder loaded, the weights were missing: the import failed
C8_Witness ==
    /\ app = "crashed"
    /\ "label_encoder.pkl" \in files.present
    /\ "label_encoder" \in files.loadable
    /\ "model.safetensors" \notin files.present

\* C9: the input of every model call, of predict and of classify_text, is
\* max_length tokens long.
C9_InputIsMaxLength ==
    (/\ call.who \in {"predict", "classify_text"}
     /\ call.outcome.model_calls >= 1)
    => call.outcome.input_len = max_length

\* C10: a request calls predict at most once, and a call of predict calls
\* the tokenizer and the model at most once each, raising or not.
C10_NoRetry ==
    \A s \in Slots :
        /\ req[s].predict_calls <= 1
        /\ req[s].result.tokenizer_calls <= 1
        /\ req[s].result.model_calls <= 1

\* The model call of a create or update request raised, after one call
C10_Witness ==
    \E s \in Slots :
        /\ req[s].kind \in {"create", "update"}
        /\ req[s].predict_calls = 1
        /\ req[s].result.exc = "RuntimeError"
        /\ req[s].result.model_calls = 1

\* An authenticated, active administrator
IsActiveAdmin(u) == u.valid /\ u.is_active /\ u.role = "admin"

WritingRoutes == {"create", "update", "delete"}

\* C11: the news collection changes only in a step of a create, update or
\* delete request whose requester is an authenticated, active administrator.
\* Such a request of an authenticated requester who is active and no
\* administrator is answered 403, one of an inactive requester 400, and
\* neither calls the classifier nor creates, changes or deletes an article.
C11_OnlyAdminsWrite ==
    [][ /\ news' # news =>
           \E s \in Slots : /\ req'[s] # req[s]
                            /\ req'[s].kind \in WritingRoutes
                            /\ IsActiveAdmin(req'[s].current_user)
        /\ \A s \in Slots :
             ( /\ req'[s] # req[s]
               /\ req'[s].kind \in WritingRoutes
               /\ req'[s].current_user.valid
               /\ ~IsActiveAdmin(req'[s].current_user) )
             => /\ req'[s].pc = "done"
                /\ req'[s].status = IF req'[s].current_user.is_active THEN 403 ELSE 400
                /\ req'[s].predict_calls = 0
                /\ req'[s].result = NotCalled
                /\ news' = news ]_vars

\* An active student's request is refused while an article is stored
C11_Witness ==
    /\ news # << >>
    /\ \E s \in Slots : /\ req[s].kind \in WritingRoutes
                         /\ req[s].pc = "done"
                         /\ req[s].current_user.valid /\ req[s].current_user.is_active
                         /\ req[s].current_user.role = "student"
                         /\ req[s].status = 403

\* C12: update_news calls the classifier exactly when the body holds
\* content. With content, what update_one stores for the article is the
\* category and the confidence of the classifier's result, whatever category
\* the body holds; without content the classifier is not called and the
\* stored confidence_score stays what it was.
C12_ReclassifiesIffContent ==
    [][ \A s \in Slots :
          (req[s].pc = "found" /\ req'[s] # req[s]) =>
            LET id == req[s].news_id
                reclassify == "content" \in req[s].body.fields
                result == req'[s].result
            IN  /\ req'[s].predict_calls = IF reclassify THEN 1 ELSE 0
                /\ (reclassify /\ result.exc = "none" /\ id \in DOMAIN news) =>
                      /\ id \in DOMAIN news'
                      /\ news'[id].category = result.category
                      /\ news'[id].confidence_score = result.confidence
                /\ ~reclassify =>
                      /\ result = NotCalled
                      /\ id \in DOMAIN news =>
                            /\ id \in DOMAIN news'
                            /\ news'[id].confidence_score = news[id].confidence_score
      ]_vars

\* An update with content and a category has stored the classifier's category
C12_Witness ==
    \E s \in Slots :
      /\ req[s].kind = "update" /\ req[s].pc = "written"
      /\ {"content", "category"} \subseteq req[s].body.fields
      /\ req[s].predict_calls = 1
      /\ req[s].news_id \in DOMAIN news
      /\ news[req[s].news_id].category = req[s].result.category
      /\ news[req[s].news_id].category # req[s].body.category
      /\ news[req[s].news_id].confidence_score = req[s].result.confidence

\* The classes of the pickled label encoder are all configured categories
EncoderIsConfigured ==
    \A i \in 1..Len(model_service.label_encoder.classes_) :
       model_service.label_encoder.classes_[i] \in ConfiguredCategories

\* C13: every stored article's category is a configured category or
\* "Uncategorized"; a category of the client's body is never what is stored.
\* Stated for a label encoder whose classes are all configured, so that a
\* category stored from a foreign class of the encoder (C5) is set apart.
C13_StoredCategoryIsClassified ==
    EncoderIsConfigured =>
      \A id \in DOMAIN news :
         /\ news[id].category \in ConfiguredCategories \cup {Uncategorized}
         /\ news[id].category \notin ClientCategories

\* C14: whatever the interleaving of register and create_user requests, no
\* two documents of the users collection hold the same email.
C14_EmailsAreUnique ==
    \A i, j \in DOMAIN users : users[i].email = users[j].email => i = j

\* C15: an administrator's update_news whose article does not exist when the
\* handler looks for it or writes it, a delete_news in between included, and
\* whose classification did not fail, is answered 404 and nothing else.
C15_MissingArticleIs404 ==
    \A s \in Slots :
       ( /\ req[s].kind = "update"
         /\ req[s].pc = "done"
         /\ IsActiveAdmin(req[s].current_user)
         /\ ~ClassificationFailed(req[s])
         /\ req[s].news_id \notin DOMAIN news )
       => req[s].status = 404

====
